---- MODULE Spec2Model ----
(***************************************************************************)
(* Model of the Scaleway inventory plugin                                  *)
(* (plugins/inventory/scaleway.py): InventoryModule.parse with its cache   *)
(* policy, the two zone-scoped fetchers, the aggregation, the grouping and *)
(* hostname resolution and the population of the inventory.                *)
(*                                                                         *)
(* Strings the code inspects character by character (zones, tags, group    *)
(* names) are tuples of one-character strings.  An Optional[...] value is  *)
(* a tuple of length 0 (None) or 1 (the value).                            *)
(***************************************************************************)
EXTENDS Integers, Sequences, FiniteSets, TLC

VARIABLES
    remote,      \* the remote API: what each zone-scoped listing answers now
    options,     \* the configuration of the inventory source (zones, tags, hostnames)
    cache,       \* self._cache: the cache store, cache key -> host records
    prior,       \* the cache store as the last parse found it
    inventory,   \* the inventory object handed to the last parse
    phase,       \* "idle" or "parsed" (a parse has just returned or raised)
    call,        \* the 'cache' option and the cache argument of the last parse
    outcome,     \* how the last parse ended
    results,     \* the host records the last parse handed to populate
    trace,       \* the external calls of the last parse, in order
    hn,          \* hostname resolution on its own: host, order, result
    resources,   \* CRUD modules: the ids of the resources the remote API holds
    mod          \* CRUD modules: the last module run, its input and its exit

vars == <<remote, options, cache, prior, inventory, phase, call, outcome, results,
          trace, hn, resources, mod>>

----------------------------------------------------------------------------
(* Bounds and universes *)

MaxListing == 1
MaxPrefLen == 2
MaxResources == 2

None == <<>>
Some(v) == <<v>>

FrPar1 == <<"f","r","-","p","a","r","-","1">>
NlAms1 == <<"n","l","-","a","m","s","-","1">>
PlWaw1 == <<"p","l","-","w","a","w","-","1">>
Dev == <<"d","e","v">>

\* the default of the zones option (abridged to two of its seven zones)
DefaultZones == <<FrPar1, NlAms1>>

\* the choices of the hostnames option
HostnameChoices == {"public_ipv4", "private_ipv4", "public_ipv6", "hostname", "id"}

Range(s) == {s[i] : i \in 1..Len(s)}

RECURSIVE SeqsUpTo(_, _)
SeqsUpTo(S, n) ==
    IF n = 0 THEN {<<>>}
    ELSE LET shorter == SeqsUpTo(S, n - 1)
         IN  shorter \cup {Append(s, x) : s \in shorter, x \in S}

\* the elements of catalog at the positions in S, in catalogue order
RECURSIVE Pick(_, _)
Pick(catalog, S) ==
    IF catalog = <<>> THEN <<>>
    ELSE LET n    == Len(catalog)
             rest == Pick(SubSeq(catalog, 1, n - 1), S)
         IN  IF n \in S THEN Append(rest, catalog[n]) ELSE rest

\* servers of the Instance API
I1 == [id |-> "i1", hostname |-> "web1", tags |-> <<Dev>>, zone |-> FrPar1,
       public_ip |-> Some([address |-> "1.2.3.4"]), private_ip |-> None,
       ipv6 |-> None]
I3 == [id |-> "x1", hostname |-> "dup", tags |-> <<Dev>>, zone |-> PlWaw1,
       public_ip |-> Some([address |-> "5.6.7.8"]), private_ip |-> None,
       ipv6 |-> Some([address |-> "2001::1"])]
InstanceServers == <<I1, I3>>

\* servers of the Baremetal API
M2 == [id |-> "m2", name |-> "", tags |-> <<>>, zone |-> NlAms1, ips |-> <<>>]
M3 == [id |-> "x1", name |-> "dup", tags |-> <<Dev>>, zone |-> PlWaw1,
       ips |-> << [version |-> "IPV6", address |-> "2001::1"],
                  [version |-> "IPV4", address |-> "5.6.7.8"],
                  [version |-> "IPV4", address |-> "5.6.7.9"] >>]
BaremetalServers == <<M2, M3>>

\* what one listing can hold: at most MaxListing servers of the catalogue
Listings(catalog) ==
    {Pick(catalog, S) : S \in {T \in SUBSET (1..Len(catalog)) : Cardinality(T) <= MaxListing}}

\* an answer of list_servers_all: the servers, or an exception
Answers(S) == {[ok |-> TRUE, servers |-> l] : l \in Listings(S)}
                \cup {[ok |-> FALSE, servers |-> <<>>]}

NoAnswer == [ok |-> TRUE, servers |-> <<>>]

\* the configurations of the inventory source: zones unset (the default
\* applies), zones set to the empty list, zones set to one zone
Configurations ==
    { [zones |-> None,             tags |-> <<>>,    hostnames |-> <<"public_ipv4">>],
      [zones |-> Some(<<>>),       tags |-> <<>>,    hostnames |-> <<"public_ipv4">>],
      [zones |-> Some(<<NlAms1>>), tags |-> <<Dev>>, hostnames |-> <<"hostname", "id">>] }

CachePath == "inv.scw.yml"

----------------------------------------------------------------------------
(* Pure functions of the plugin *)

StartsWith(s, prefix) ==
    /\ Len(prefix) <= Len(s)
    /\ SubSeq(s, 1, Len(prefix)) = prefix

\* str.replace(old, new) for one-character old and new
Replace(s, old, new) == [i \in 1..Len(s) |-> IF s[i] = old THEN new ELSE s[i]]

RECURSIVE Flatten(_)
Flatten(ss) == IF ss = <<>> THEN <<>> ELSE Head(ss) \o Flatten(Tail(ss))

\* get_option("zones"): the configured list, or the documented default
get_option_zones == IF options.zones = None THEN DefaultZones ELSE options.zones[1]

\* the tags of the filters and the running state are arguments of the remote
\* listing; what the remote answers to them is the remote's choice
_get_filters ==
    LET zones == get_option_zones
        tags  == options.tags
    IN  [zones |-> IF zones # <<>> THEN zones ELSE <<>>,
         tags  |-> IF tags # <<>> THEN tags ELSE <<>>]

get_cache_key(path) == <<path>>

get_host_groups(host) == Range(host.tags) \cup {Replace(host.zone, "-", "_")}

as_dict(host) ==
    [public_ipv4 |-> host.public_ipv4, private_ipv4 |-> host.private_ipv4,
     public_ipv6 |-> host.public_ipv6, hostname |-> Some(host.hostname),
     id |-> Some(host.id)]

\* a slip in the truth test: "is not None" instead of truthiness
Truthy_not_none(o) == o # None

\* truth value of an Optional[str]: neither None nor ""
Truthy(o) == o # None /\ o[1] # ""

RECURSIVE _get_hostname(_, _)
_get_hostname(host, hostnames) ==
    IF hostnames = <<>> THEN [ok |-> FALSE, value |-> ""]
    ELSE LET hostname == Head(hostnames)
         IN  IF hostname \in DOMAIN as_dict(host) /\ Truthy(as_dict(host)[hostname])
             THEN [ok |-> TRUE, value |-> as_dict(host)[hostname][1]]
             ELSE _get_hostname(host, Tail(hostnames))

----------------------------------------------------------------------------
(* The fetchers and the aggregation *)

InstanceHost(server) ==
    [id |-> server.id, hostname |-> server.hostname, tags |-> server.tags,
     zone |-> server.zone,
     public_ipv4 |-> IF server.public_ip # None
                     THEN Some(server.public_ip[1].address) ELSE None,
     private_ipv4 |-> server.private_ip,
     public_ipv6 |-> IF server.ipv6 # None
                     THEN Some(server.ipv6[1].address) ELSE None]

\* a slip in the zone check: it keeps the matching zones and drops the others
ZoneCheckDrops_others(server, filters) ==
    /\ filters.zones # <<>>
    /\ ~\E i \in 1..Len(filters.zones) : StartsWith(server.zone, filters.zones[i])

\* the post-fetch zone check of _get_instances
ZoneCheckDrops(server, filters) ==
    /\ filters.zones # <<>>
    /\ \E i \in 1..Len(filters.zones) : StartsWith(server.zone, filters.zones[i])

RECURSIVE MapSeq(_, _)
MapSeq(Op(_), s) == IF s = <<>> THEN <<>> ELSE <<Op(Head(s))>> \o MapSeq(Op, Tail(s))

\* a slip in the fetch loop: every zone is requested before the failure is seen
InstanceQueries_all(zones, api) == zones

\* _get_instances, the fetch loop: the zones whose listing is requested, in
\* order, up to and including the first one that raises
RECURSIVE InstanceQueries(_, _)
InstanceQueries(zones, api) ==
    IF zones = <<>> THEN <<>>
    ELSE IF ~api[Head(zones)].ok THEN <<Head(zones)>>
    ELSE <<Head(zones)>> \o InstanceQueries(Tail(zones), api)

\* a slip in _get_instances: the exception is swallowed as in the bare-metal loop
InstanceFailed_swallowed(queried, api) == FALSE

\* the exception of list_servers_all leaves _get_instances
InstanceFailed(queried, api) == \E i \in 1..Len(queried) : ~api[queried[i]].ok

_get_instances(filters) ==
    LET api     == remote.instance
        queried == InstanceQueries(filters.zones, api)
        failed  == InstanceFailed(queried, api)
        servers == Flatten([i \in 1..Len(queried) |-> api[queried[i]].servers])
        kept    == SelectSeq(servers, LAMBDA server : ~ZoneCheckDrops(server, filters))
    IN  [ok      |-> ~failed,
         queried |-> queried,
         results |-> IF failed THEN <<>> ELSE MapSeq(InstanceHost, kept)]

FirstAddress(ips, version) ==
    LET of == SelectSeq(ips, LAMBDA ip : ip.version = version)
    IN  IF of = <<>> THEN None ELSE Some(of[1].address)

BaremetalHost(server) ==
    [id |-> server.id, hostname |-> server.name, tags |-> server.tags,
     zone |-> server.zone,
     public_ipv4 |-> FirstAddress(server.ips, "IPV4"),
     private_ipv4 |-> None,
     public_ipv6 |-> FirstAddress(server.ips, "IPV6")]

\* a slip in _get_elastic_metal: the try block encloses the loop, so the first
\* exception ends it
RECURSIVE BaremetalFound_until_failure(_, _)
BaremetalFound_until_failure(zones, api) ==
    IF zones = <<>> \/ ~api[Head(zones)].ok THEN <<>>
    ELSE api[Head(zones)].servers \o BaremetalFound_until_failure(Tail(zones), api)

\* _get_elastic_metal, the fetch loop: a zone whose listing raises
\* ScalewayException adds nothing, and the loop goes on
RECURSIVE BaremetalFound(_, _)
BaremetalFound(zones, api) ==
    IF zones = <<>> THEN <<>>
    ELSE (IF api[Head(zones)].ok THEN api[Head(zones)].servers ELSE <<>>)
         \o BaremetalFound(Tail(zones), api)

_get_elastic_metal(filters) ==
    LET api     == remote.baremetal
        servers == BaremetalFound(filters.zones, api)
    IN  [queried |-> filters.zones,
         results |-> MapSeq(BaremetalHost, servers)]

\* a slip in get_inventory: the operands are swapped
Aggregate_swapped(instances, elastic_metals) == elastic_metals \o instances

\* get_inventory: return instances + elastic_metals
Aggregate(instances, elastic_metals) == instances \o elastic_metals

Calls(op, args) == [i \in 1..Len(args) |-> [op |-> op, arg |-> args[i]]]

get_inventory ==
    LET filters        == _get_filters
        instances      == _get_instances(filters)
        elastic_metals == _get_elastic_metal(filters)
    IN  IF ~instances.ok
        THEN [ok |-> FALSE, results |-> <<>>,
              trace |-> Calls("get_inventory", <<None>>)
                        \o Calls("list_instances", instances.queried)]
        ELSE [ok |-> TRUE,
              results |-> Aggregate(instances.results, elastic_metals.results),
              trace |-> Calls("get_inventory", <<None>>)
                        \o Calls("list_instances", instances.queried)
                        \o Calls("list_baremetal", elastic_metals.queried)]

----------------------------------------------------------------------------
(* Population of the inventory *)

EmptyInventory == [groups |-> {}, hosts |-> {}]

\* inventory.add_group(group) and inventory.add_host(group, host) for every
\* group of one record
AddHost(inv, groups, hostname) ==
    [groups |-> inv.groups \cup groups,
     hosts  |-> inv.hosts \cup {<<group, hostname>> : group \in groups}]

\* a slip in populate: what the pass has registered is taken back on failure
Raised_rolled_back(inv) == [ok |-> FALSE, inventory |-> EmptyInventory]

\* the ValueError of _get_hostname leaves populate and parse: nothing catches
\* it, and what the loop has registered so far stays in the inventory
Raised(inv) == [ok |-> FALSE, inventory |-> inv]

RECURSIVE populate(_, _, _)
populate(records, hostnames, inv) ==
    IF records = <<>> THEN [ok |-> TRUE, inventory |-> inv]
    ELSE LET result   == Head(records)
             groups   == get_host_groups(result)
             hostname == _get_hostname(result, hostnames)
         IN  IF ~hostname.ok THEN Raised(inv)
             ELSE populate(Tail(records), hostnames,
                           AddHost(inv, groups, hostname.value))

----------------------------------------------------------------------------
(* parse *)

\* a slip in use_cache: the persistent option is not consulted
use_cache_ignoring_option(user_cache_setting, cache_arg) == cache_arg

\* use_cache = user_cache_setting and cache
use_cache(user_cache_setting, cache_arg) == user_cache_setting /\ cache_arg

\* a slip in update_cache: a refresh invocation does not mark the entry stale
update_cache_only_on_miss(user_cache_setting, cache_arg, miss) == miss

\* update_cache = user_cache_setting and not cache, set to True by a KeyError
update_cache(user_cache_setting, cache_arg, miss) ==
    (user_cache_setting /\ ~cache_arg) \/ miss

\* a slip in the cache write: the assignment is lost
CacheSet_lost(store, key, value) == store

\* self._cache[cache_key] = results
CacheSet(store, key, value) ==
    [k \in DOMAIN store \cup {key} |-> IF k = key THEN value ELSE store[k]]

\* a slip in the cache read: an empty entry is taken for a missing one
CacheMiss_on_empty(store, key) == key \notin DOMAIN store \/ store[key] = <<>>

\* results = self._cache[cache_key] raises KeyError
CacheMiss(store, key) == key \notin DOMAIN store

ParseResult(user_cache_setting, cache_arg) ==
    LET cache_key == get_cache_key(CachePath)
        use       == use_cache(user_cache_setting, cache_arg)
        miss      == use /\ CacheMiss(cache, cache_key)
        update    == update_cache(user_cache_setting, cache_arg, miss)
        live      == ~use \/ update
        fetched   == get_inventory
        readTrace == IF use THEN Calls("cache_get", <<cache_key>>) ELSE <<>>
        liveTrace == IF live THEN fetched.trace ELSE <<>>
    IN  IF live /\ ~fetched.ok
        THEN [outcome |-> "remote_error", cache |-> cache, results |-> <<>>,
              inventory |-> EmptyInventory, trace |-> readTrace \o liveTrace]
        ELSE LET res       == IF live THEN fetched.results ELSE cache[cache_key]
                 store     == IF update THEN CacheSet(cache, cache_key, res) ELSE cache
                 populated == populate(res, options.hostnames, EmptyInventory)
             IN  [outcome |-> IF populated.ok THEN "ok" ELSE "no_hostname",
                  cache |-> store, results |-> res,
                  inventory |-> populated.inventory,
                  trace |-> readTrace \o liveTrace
                            \o (IF update THEN Calls("cache_set", <<cache_key>>)
                                ELSE <<>>)
                            \o Calls("populate", <<None>>)]

\* One invocation of parse(inventory, loader, path, cache) on an inventory
\* object that is handed in empty; the 'cache' option is read from the source
\* at every invocation.
NoHn == [host |-> InstanceHost(I1), order |-> <<>>, done |-> FALSE,
         out |-> [ok |-> FALSE, value |-> ""]]

EmptyCache == [k \in {} |-> <<>>]

\* no CRUD module has run
NoRun == [ran |-> FALSE, module |-> "", state |-> "", id |-> None, check_mode |-> FALSE,
          exit |-> "", changed |-> FALSE, calls |-> <<>>, wait |-> "", before |-> {}]

NoCall == [cache_option |-> FALSE, cache_arg |-> FALSE]

Parse ==
    \E user_cache_setting \in BOOLEAN, cache_arg \in BOOLEAN :
        LET r == ParseResult(user_cache_setting, cache_arg)
        IN  /\ phase' = "parsed"
            /\ call' = [cache_option |-> user_cache_setting, cache_arg |-> cache_arg]
            /\ outcome' = r.outcome
            /\ cache' = r.cache
            /\ prior' = cache
            /\ results' = r.results
            /\ inventory' = r.inventory
            /\ trace' = r.trace
            /\ UNCHANGED <<remote, options, hn, resources, mod>>

----------------------------------------------------------------------------
(* The environment: between two invocations the remote resources change;   *)
(* the inventory object and the observations of the finished invocation    *)
(* are gone.                                                               *)

RemoteChange ==
    /\ \E class \in {"instance", "baremetal"}, zone \in Range(get_option_zones) :
         \E answer \in Answers(IF class = "instance" THEN InstanceServers
                               ELSE BaremetalServers) :
            /\ answer # remote[class][zone]
            /\ remote' = [remote EXCEPT ![class][zone] = answer]
    /\ prior' = EmptyCache
    /\ phase' = "idle"
    /\ call' = NoCall
    /\ outcome' = "none"
    /\ results' = <<>>
    /\ inventory' = EmptyInventory
    /\ trace' = <<>>
    /\ UNCHANGED <<options, cache, hn, resources, mod>>

QueryZones == Range(DefaultZones)

Init ==
    /\ options \in Configurations
    /\ remote \in [instance : [QueryZones -> Answers(InstanceServers)],
                   baremetal : [QueryZones -> Answers(BaremetalServers)]]
    /\ \A zone \in QueryZones \ Range(get_option_zones) :
          remote.instance[zone] = NoAnswer /\ remote.baremetal[zone] = NoAnswer
    /\ cache = EmptyCache
    /\ prior = EmptyCache
    /\ inventory = EmptyInventory
    /\ phase = "idle"
    /\ call = NoCall
    /\ outcome = "none"
    /\ results = <<>>
    /\ trace = <<>>
    /\ hn = NoHn
    /\ resources = {}
    /\ mod = NoRun

Next == Parse \/ RemoteChange

Spec == Init /\ [][Next]_vars

----------------------------------------------------------------------------
(* Hostname resolution on its own: _get_hostname applied to every host     *)
(* record and every preference order of the bounded sets.                  *)

OptionalStrings(v) == {None, Some(""), Some(v)}

HostRecords ==
    [id : {"", "i1"}, hostname : {"", "web1"}, tags : {<<Dev>>}, zone : {FrPar1},
     public_ipv4 : OptionalStrings("1.2.3.4"),
     private_ipv4 : OptionalStrings("10.0.0.1"),
     public_ipv6 : OptionalStrings("2001::1")]

PreferenceOrders == SeqsUpTo(HostnameChoices, MaxPrefLen)

InitHostname ==
    /\ hn \in [host : HostRecords, order : PreferenceOrders, done : {FALSE},
               out : {[ok |-> FALSE, value |-> ""]}]
    /\ options = [zones |-> None, tags |-> <<>>, hostnames |-> <<"public_ipv4">>]
    /\ remote = [instance |-> [zone \in QueryZones |-> NoAnswer],
                 baremetal |-> [zone \in QueryZones |-> NoAnswer]]
    /\ cache = EmptyCache
    /\ prior = EmptyCache
    /\ inventory = EmptyInventory
    /\ phase = "idle"
    /\ call = NoCall
    /\ outcome = "none"
    /\ results = <<>>
    /\ trace = <<>>
    /\ resources = {}
    /\ mod = NoRun

ResolveHostname ==
    /\ ~hn.done
    /\ hn' = [hn EXCEPT !.done = TRUE, !.out = _get_hostname(hn.host, hn.order)]
    /\ UNCHANGED <<remote, options, cache, prior, inventory, phase, call, outcome, results,
                 trace, resources, mod>>

NextHostname == ResolveHostname

SpecHostname == InitHostname /\ [][NextHostname]_vars

----------------------------------------------------------------------------
(* The CRUD modules (plugins/modules/scaleway_*.py): main -> core ->       *)
(* create or delete, against one kind of remote resource.                  *)

ModuleKinds == {"scaleway_container_token", "scaleway_lb_certificate",
                "scaleway_lb_route", "scaleway_mnq_credential"}

\* the modules that call wait_for_* after create_* and after delete_*
Waits(kind) == kind \in {"scaleway_container_token", "scaleway_lb_certificate"}

ResourceIds == 1..MaxResources

\* what wait_for_* does: it returns, raises ScalewayException with status 404,
\* or raises it with another status
WaitAnswers == {"returned", "status_404", "status_other"}

Exit(how, changed, calls, remaining) ==
    [exit |-> how, changed |-> changed, calls |-> calls, resources |-> remaining]

\* a slip in create: the check-mode exit is missing
create_stops_in_check_mode_never(check_mode) == FALSE

\* create: if module.check_mode: module.exit_json(changed=True)
create_stops_in_check_mode(check_mode) == check_mode

create(kind, id, check_mode, held, new, wait) ==
    IF id # None
    THEN IF id[1] \notin held
         THEN Exit("exception", FALSE, <<"get">>, held)
         ELSE Exit("exit_json", FALSE, <<"get">>, held)
    ELSE IF create_stops_in_check_mode(check_mode)
    THEN Exit("exit_json", TRUE, <<>>, held)
    ELSE IF Waits(kind)
    THEN IF wait = "returned"
         THEN Exit("exit_json", TRUE, <<"create", "wait_for">>, held \cup {new})
         ELSE Exit("exception", FALSE, <<"create", "wait_for">>, held \cup {new})
    ELSE Exit("exit_json", TRUE, <<"create">>, held \cup {new})

\* a slip in delete: the check-mode exit is missing
delete_stops_in_check_mode_never(check_mode) == FALSE

\* delete: if module.check_mode: module.exit_json(changed=True)
delete_stops_in_check_mode(check_mode) == check_mode

delete(kind, id, check_mode, held, wait) ==
    IF id = None
    THEN Exit("fail_json", FALSE, <<>>, held)
    ELSE IF id[1] \notin held
    THEN Exit("exception", FALSE, <<"get">>, held)
    ELSE IF delete_stops_in_check_mode(check_mode)
    THEN Exit("exit_json", TRUE, <<"get">>, held)
    ELSE IF Waits(kind)
    THEN IF wait = "status_other"
         THEN Exit("exception", FALSE, <<"get", "delete", "wait_for">>, held \ {id[1]})
         ELSE Exit("exit_json", TRUE, <<"get", "delete", "wait_for">>, held \ {id[1]})
    ELSE Exit("exit_json", TRUE, <<"get", "delete">>, held \ {id[1]})

core(kind, state, id, check_mode, held, new, wait) ==
    IF state = "present" THEN create(kind, id, check_mode, held, new, wait)
    ELSE delete(kind, id, check_mode, held, wait)

\* whether this run reaches create_*, which needs an id the remote can give
ReachesCreate(state, id, check_mode) ==
    state = "present" /\ id = None /\ ~create_stops_in_check_mode(check_mode)

\* One run of a module: main() with the parameters state and id and with or
\* without check mode.
ModuleRun ==
    \E state \in {"present", "absent"}, id \in {None} \cup {Some(i) : i \in ResourceIds},
       check_mode \in BOOLEAN, wait \in WaitAnswers, new \in ResourceIds :
        /\ IF ReachesCreate(state, id, check_mode) THEN new \notin resources
           ELSE new = 1
        /\ LET r == core(mod.module, state, id, check_mode, resources, new, wait)
           IN  /\ resources' = r.resources
               /\ mod' = [ran |-> TRUE, module |-> mod.module, state |-> state, id |-> id,
                          check_mode |-> check_mode, exit |-> r.exit,
                          changed |-> r.changed, calls |-> r.calls,
                          wait |-> IF \E i \in 1..Len(r.calls) : r.calls[i] = "wait_for"
                                   THEN wait ELSE "",
                          before |-> resources]
        /\ UNCHANGED <<remote, options, cache, prior, inventory, phase, call, outcome,
                       results, trace, hn>>

InitModule ==
    /\ mod \in {[NoRun EXCEPT !.module = kind] : kind \in ModuleKinds}
    /\ resources = {}
    /\ options = [zones |-> None, tags |-> <<>>, hostnames |-> <<"public_ipv4">>]
    /\ remote = [instance |-> [zone \in QueryZones |-> NoAnswer],
                 baremetal |-> [zone \in QueryZones |-> NoAnswer]]
    /\ cache = EmptyCache
    /\ prior = EmptyCache
    /\ inventory = EmptyInventory
    /\ phase = "idle"
    /\ call = NoCall
    /\ outcome = "none"
    /\ results = <<>>
    /\ trace = <<>>
    /\ hn = NoHn

NextModule == ModuleRun

SpecModule == InitModule /\ [][NextModule]_vars

----------------------------------------------------------------------------
(* Properties of parse and its cache policy *)

Key == get_cache_key(CachePath)

CountOp(tr, op) == Cardinality({i \in 1..Len(tr) : tr[i].op = op})

\* the positions of the calls of one operation in a trace
Positions(tr, op) == {i \in 1..Len(tr) : tr[i].op = op}

Parsed(option, arg) ==
    /\ phase = "parsed"
    /\ call = [cache_option |-> option, cache_arg |-> arg]

\* C1: with the 'cache' option false, parse neither reads nor writes the
\* cache store, whatever the cache argument and whatever the store holds, and
\* every such parse runs the live aggregation.
C1_DisabledCacheUntouched ==
    (phase = "parsed" /\ ~call.cache_option) =>
        /\ cache = prior
        /\ CountOp(trace, "cache_get") = 0
        /\ CountOp(trace, "cache_set") = 0
        /\ CountOp(trace, "get_inventory") = 1
        /\ outcome # "remote_error" => results = get_inventory.results

\* a parse with the option false and the cache argument true, over a store that
\* holds an entry different from what the live aggregation returned
C1_Witness ==
    /\ Parsed(FALSE, TRUE)
    /\ outcome = "ok"
    /\ Key \in DOMAIN cache
    /\ cache[Key] # results
    /\ cache[Key] # <<>>

\* C2: with caching enabled and the cache argument true, parse reads the entry
\* of the key; on a miss the miss itself is no error, the live aggregation
\* runs once and its whole result is stored under the key before populate is
\* called, as in a refresh.
C2_MissFetchesAndWrites ==
    Parsed(TRUE, TRUE) =>
        /\ trace # <<>>
        /\ trace[1] = [op |-> "cache_get", arg |-> Key]
        /\ CountOp(trace, "cache_get") = 1
        /\ Key \notin DOMAIN prior =>
            /\ CountOp(trace, "get_inventory") = 1
            /\ outcome = "remote_error" <=> ~get_inventory.ok
            /\ get_inventory.ok =>
                /\ Key \in DOMAIN cache
                /\ cache[Key] = get_inventory.results
                /\ results = get_inventory.results
                /\ CountOp(trace, "cache_set") = 1
                /\ \A i \in Positions(trace, "cache_set"),
                      j \in Positions(trace, "populate") : i < j
                /\ \A i \in Positions(trace, "get_inventory"),
                      j \in Positions(trace, "cache_set") : i < j

\* a miss that fetched a non-empty sequence and stored it
C2_Witness ==
    /\ Parsed(TRUE, TRUE)
    /\ Key \notin DOMAIN prior
    /\ Key \in DOMAIN cache
    /\ Len(cache[Key]) >= 2
    /\ outcome = "ok"

\* C3: with caching enabled and the cache argument false, parse does not read
\* the cache, runs the live aggregation and replaces the whole entry of the
\* key by the new result, also over a prior entry.
C3_RefreshReplacesEntry ==
    Parsed(TRUE, FALSE) =>
        /\ CountOp(trace, "cache_get") = 0
        /\ CountOp(trace, "get_inventory") = 1
        /\ get_inventory.ok =>
            /\ CountOp(trace, "cache_set") = 1
            /\ Key \in DOMAIN cache
            /\ cache[Key] = get_inventory.results
            /\ results = cache[Key]

\* a refresh over a prior entry none of whose records is fetched again
C3_Witness ==
    /\ Parsed(TRUE, FALSE)
    /\ Key \in DOMAIN prior
    /\ prior[Key] # <<>>
    /\ cache[Key] # <<>>
    /\ \A i \in 1..Len(prior[Key]), j \in 1..Len(cache[Key]) :
          prior[Key][i] # cache[Key][j]

----------------------------------------------------------------------------
(* Properties of the aggregation *)

Live == phase = "parsed" /\ CountOp(trace, "get_inventory") = 1

ConfiguredZones == _get_filters.zones

\* the arguments of the calls of one operation, in call order
ArgsOf(tr, op) ==
    LET calls == SelectSeq(tr, LAMBDA c : c.op = op)
    IN  [i \in 1..Len(calls) |-> calls[i].arg]

InstanceListingFails ==
    \E i \in 1..Len(ConfiguredZones) : ~remote.instance[ConfiguredZones[i]].ok

\* C4: if the instance listing fails for a configured zone, the parse fails
\* with that error: nothing is added to the inventory, the cache is not
\* written and a prior entry keeps its value.
C4_InstanceFailureIsFatal ==
    (Live /\ InstanceListingFails) =>
        /\ outcome = "remote_error"
        /\ inventory = EmptyInventory
        /\ CountOp(trace, "cache_set") = 0
        /\ CountOp(trace, "populate") = 0
        /\ cache = prior

\* a refresh over a non-empty prior entry; the first zone lists a server, the
\* second zone raises, bare metal would have answered
C4_Witness ==
    /\ Parsed(TRUE, FALSE)
    /\ Len(ConfiguredZones) = 2
    /\ remote.instance[ConfiguredZones[1]].ok
    /\ remote.instance[ConfiguredZones[1]].servers # <<>>
    /\ ~remote.instance[ConfiguredZones[2]].ok
    /\ remote.baremetal[ConfiguredZones[1]].servers # <<>>
    /\ outcome = "remote_error"
    /\ Key \in DOMAIN cache
    /\ cache[Key] # <<>>

RECURSIVE SumOver(_, _)
SumOver(f, n) == IF n = 0 THEN 0 ELSE f[n] + SumOver(f, n - 1)

\* how many bare-metal servers the zones that answered returned
BaremetalReturned ==
    SumOver([i \in 1..Len(ConfiguredZones) |->
                IF remote.baremetal[ConfiguredZones[i]].ok
                THEN Len(remote.baremetal[ConfiguredZones[i]].servers) ELSE 0],
            Len(ConfiguredZones))

\* how many instances the zones returned that pass the post-fetch zone check
InstancesKept ==
    SumOver([i \in 1..Len(ConfiguredZones) |->
                Cardinality({k \in 1..Len(remote.instance[ConfiguredZones[i]].servers) :
                    ~ZoneCheckDrops(remote.instance[ConfiguredZones[i]].servers[k],
                                    _get_filters)})],
            Len(ConfiguredZones))

\* the last n elements of s
Suffix(s, n) == SubSeq(s, Len(s) - n + 1, Len(s))

\* C5: whichever zones' bare-metal listing raises, the aggregation does not
\* fail, every configured zone is still queried, and the bare-metal part of
\* the result holds the servers of the zones that answered and nothing else.
C5_BaremetalFaultIsolation ==
    (Live /\ ~InstanceListingFails) =>
        /\ outcome # "remote_error"
        /\ ArgsOf(trace, "list_baremetal") = ConfiguredZones
        /\ Len(results) = InstancesKept + BaremetalReturned
        /\ \A i \in 1..Len(ConfiguredZones) :
              LET answer == remote.baremetal[ConfiguredZones[i]]
              IN  answer.ok =>
                    \A k \in 1..Len(answer.servers) :
                        \E j \in 1..BaremetalReturned :
                            /\ Suffix(results, BaremetalReturned)[j].id = answer.servers[k].id
                            /\ Suffix(results, BaremetalReturned)[j].zone = answer.servers[k].zone

\* the first zone's bare-metal listing raises, the second zone's server is in
\* the result
C5_Witness ==
    /\ Live
    /\ Len(ConfiguredZones) = 2
    /\ ~remote.baremetal[ConfiguredZones[1]].ok
    /\ remote.baremetal[ConfiguredZones[2]] = [ok |-> TRUE, servers |-> <<M3>>]
    /\ outcome = "ok"
    /\ results = <<BaremetalHost(M3)>>

\* the records the Instance Fetcher returns for one zone: those of the listed
\* servers that pass its zone check
InstanceRecordsOf(zone) ==
    MapSeq(InstanceHost,
           SelectSeq(remote.instance[zone].servers,
                     LAMBDA server : ~ZoneCheckDrops(server, _get_filters)))

BaremetalRecordsOf(zone) ==
    IF remote.baremetal[zone].ok
    THEN MapSeq(BaremetalHost, remote.baremetal[zone].servers) ELSE <<>>

Count(s, x) == Cardinality({i \in 1..Len(s) : s[i] = x})

\* C6: the result of get_inventory is the instance records, zone by zone in
\* configured order, followed by the bare-metal records in the same zone
\* order; nothing is merged, a record both fetchers return is there twice.
C6_ConcatenationInZoneOrder ==
    (Live /\ ~InstanceListingFails) =>
        LET instances == Flatten([i \in 1..Len(ConfiguredZones) |->
                                     InstanceRecordsOf(ConfiguredZones[i])])
            metals    == Flatten([i \in 1..Len(ConfiguredZones) |->
                                     BaremetalRecordsOf(ConfiguredZones[i])])
        IN  /\ results = instances \o metals
            /\ \A i \in 1..Len(results) :
                  Count(results, results[i])
                     = Count(instances, results[i]) + Count(metals, results[i])

\* an instance record first, then the bare-metal records of the first and of
\* the second zone, the last one equal to the instance record
C6_Witness ==
    /\ Live
    /\ ConfiguredZones = <<FrPar1, NlAms1>>
    /\ remote.instance[NlAms1].servers = <<I3>>
    /\ remote.baremetal[FrPar1].servers = <<M2>>
    /\ remote.baremetal[NlAms1].servers = <<M3>>
    /\ results = <<InstanceHost(I3), BaremetalHost(M2), BaremetalHost(M3)>>
    /\ results[1] = results[3]

\* C7: with an empty zone list in the filters, every zone of the default list
\* is queried for both source classes and the zone check drops nothing.
C7_EmptyZonesQueryDefaults ==
    (Live /\ ConfiguredZones = <<>>) =>
        /\ ArgsOf(trace, "list_instances") = DefaultZones
        /\ ArgsOf(trace, "list_baremetal") = DefaultZones
        /\ \A i \in 1..Len(DefaultZones) :
              \A k \in 1..Len(remote.instance[DefaultZones[i]].servers) :
                  ~ZoneCheckDrops(remote.instance[DefaultZones[i]].servers[k], _get_filters)

\* C9: every instance the listing of a configured zone returns, whose hostname
\* resolves, is in the populated inventory under each of its tags and under
\* its zone with '-' replaced by '_'.
C9_ListedInstancesArePopulated ==
    (Live /\ outcome = "ok") =>
        \A i \in 1..Len(ConfiguredZones) :
            \A k \in 1..Len(remote.instance[ConfiguredZones[i]].servers) :
                LET server   == remote.instance[ConfiguredZones[i]].servers[k]
                    hostname == _get_hostname(InstanceHost(server), options.hostnames)
                IN  hostname.ok =>
                      \A group \in Range(server.tags)
                                     \cup {Replace(server.zone, "-", "_")} :
                          /\ group \in inventory.groups
                          /\ <<group, hostname.value>> \in inventory.hosts

\* C10: a parse with caching enabled and the cache argument true that finds
\* an entry reads exactly that sequence, populates the inventory from it and
\* neither fetches live nor writes the cache; an empty entry is a hit.
C10_CacheHitRoundTrip ==
    (Parsed(TRUE, TRUE) /\ Key \in DOMAIN prior) =>
        /\ results = prior[Key]
        /\ cache = prior
        /\ CountOp(trace, "get_inventory") = 0
        /\ CountOp(trace, "list_instances") = 0
        /\ CountOp(trace, "list_baremetal") = 0
        /\ CountOp(trace, "cache_set") = 0
        /\ CountOp(trace, "populate") = 1
        /\ inventory = populate(prior[Key], options.hostnames, EmptyInventory).inventory

\* the entry is the empty sequence while the remote would now return servers
C10_Witness ==
    /\ Parsed(TRUE, TRUE)
    /\ Key \in DOMAIN prior
    /\ prior[Key] = <<>>
    /\ results = <<>>
    /\ get_inventory.ok
    /\ get_inventory.results # <<>>
    /\ outcome = "ok"

----------------------------------------------------------------------------
(* Properties of the hostname resolution *)

FieldOf(host, name) ==
    CASE name = "public_ipv4"  -> host.public_ipv4
      [] name = "private_ipv4" -> host.private_ipv4
      [] name = "public_ipv6"  -> host.public_ipv6
      [] name = "hostname"     -> Some(host.hostname)
      [] name = "id"           -> Some(host.id)

Usable(host, name) == FieldOf(host, name) # None /\ FieldOf(host, name)[1] # ""

\* C8: _get_hostname returns the value of the first field of the preference
\* order that is present and non-empty, and fails exactly when no field of the
\* order is.
C8_FirstUsableField ==
    hn.done =>
        LET usable == {i \in 1..Len(hn.order) : Usable(hn.host, hn.order[i])}
        IN  IF usable = {} THEN ~hn.out.ok
            ELSE LET first == CHOOSE i \in usable : \A j \in usable : i <= j
                 IN  /\ hn.out.ok
                     /\ hn.out.value = FieldOf(hn.host, hn.order[first])[1]

\* public_ipv4 is the empty string, hostname is set: the hostname is returned
C8_Witness ==
    /\ hn.done
    /\ hn.order = <<"public_ipv4", "hostname">>
    /\ hn.host.public_ipv4 = Some("")
    /\ hn.host.hostname = "web1"
    /\ hn.out = [ok |-> TRUE, value |-> "web1"]

----------------------------------------------------------------------------
(* Properties of the CRUD modules *)

Called(op) == \E i \in 1..Len(mod.calls) : mod.calls[i] = op

\* C11: state=absent with an id deletes the resource if it exists and exits
\* with changed=True; on a resource that does not exist it completes without
\* an error.
C11_AbsentIsIdempotent ==
    (mod.ran /\ mod.state = "absent" /\ mod.id # None /\ ~mod.check_mode) =>
        /\ (mod.id[1] \in mod.before /\ mod.wait # "status_other") =>
              /\ mod.exit = "exit_json"
              /\ mod.changed
              /\ resources = mod.before \ {mod.id[1]}
        /\ mod.id[1] \notin mod.before =>
              /\ mod.exit = "exit_json"
              /\ resources = mod.before

----------------------------------------------------------------------------
(* Properties of the Instance Fetcher and of a failing run *)

\* the instances the listings returned, in fetch order
Fetched == Flatten([i \in 1..Len(ConfiguredZones) |->
                       remote.instance[ConfiguredZones[i]].servers])

IsPrefix(p, s) == Len(p) <= Len(s) /\ \A i \in 1..Len(p) : p[i] = s[i]

\* the positions of Fetched whose zone starts with a configured zone string,
\* under a non-empty zone list
Matching ==
    {k \in 1..Len(Fetched) :
        /\ ConfiguredZones # <<>>
        /\ \E i \in 1..Len(ConfiguredZones) : IsPrefix(ConfiguredZones[i], Fetched[k].zone)}

\* C12: a fetched instance is dropped if and only if the zone list is
\* non-empty and its zone starts with a configured zone string; every other
\* fetched instance gives exactly one host record, in fetch order.
C12_DroppedIffZoneMatches ==
    (Live /\ ~InstanceListingFails) =>
        LET others    == (1..Len(Fetched)) \ Matching
            instances == SubSeq(results, 1, Len(results) - BaremetalReturned)
        IN  /\ Len(instances) = Cardinality(others)
            /\ \A k \in others :
                  LET j == Cardinality({o \in others : o <= k})
                  IN  /\ instances[j].id = Fetched[k].id
                      /\ instances[j].zone = Fetched[k].zone
                      /\ instances[j].hostname = Fetched[k].hostname
                      /\ instances[j].tags = Fetched[k].tags

\* the first zone lists an instance of that zone, which is dropped; the second
\* zone lists an instance of a zone that is not configured, which is kept
C12_Witness ==
    /\ Live
    /\ ConfiguredZones = <<FrPar1, NlAms1>>
    /\ remote.instance[FrPar1].servers = <<I1>>
    /\ remote.instance[NlAms1].servers = <<I3>>
    /\ remote.baremetal[FrPar1].servers = <<>>
    /\ remote.baremetal[NlAms1].servers = <<>>
    /\ results = <<InstanceHost(I3)>>

\* the position, in the configured order, of the first zone whose instance
\* listing fails
FirstFailing ==
    CHOOSE i \in 1..Len(ConfiguredZones) :
        /\ ~remote.instance[ConfiguredZones[i]].ok
        /\ \A j \in 1..(i - 1) : remote.instance[ConfiguredZones[j]].ok

\* C13: when the instance listing fails for zone z, the aggregation fails at
\* once: the failing query is the last remote call of the run, no instance
\* query is issued for a zone after z and no bare-metal query is issued at all.
C13_FailFast ==
    (Live /\ InstanceListingFails) =>
        /\ outcome = "remote_error"
        /\ ArgsOf(trace, "list_instances") = SubSeq(ConfiguredZones, 1, FirstFailing)
        /\ CountOp(trace, "list_baremetal") = 0
        /\ trace[Len(trace)] = [op |-> "list_instances", arg |-> ConfiguredZones[FirstFailing]]

\* the first of two zones fails; the second zone and the bare-metal listings
\* would have answered with servers
C13_Witness ==
    /\ Live
    /\ Len(ConfiguredZones) = 2
    /\ ~remote.instance[ConfiguredZones[1]].ok
    /\ remote.instance[ConfiguredZones[2]].ok
    /\ remote.instance[ConfiguredZones[2]].servers # <<>>
    /\ remote.baremetal[ConfiguredZones[1]].servers # <<>>
    /\ ArgsOf(trace, "list_instances") = <<ConfiguredZones[1]>>
    /\ outcome = "remote_error"

----------------------------------------------------------------------------
(* Properties of the CRUD modules in check mode *)

\* C14: in check mode a module run issues no create_* and no delete_* call
\* and leaves the remote resources as they were, whatever state and id are;
\* when it exits normally it reports changed=False exactly for state=present
\* with the id of an existing resource, and changed=True otherwise.
C14_CheckModeDoesNotMutate ==
    (mod.ran /\ mod.check_mode) =>
        /\ ~Called("create")
        /\ ~Called("delete")
        /\ resources = mod.before
        /\ mod.exit = "exit_json" =>
              (~mod.changed <=> (/\ mod.state = "present"
                                 /\ mod.id # None
                                 /\ mod.id[1] \in mod.before))

\* a check-mode run with state=absent on a resource that exists, next to
\* another resource
C14_Witness ==
    /\ mod.ran
    /\ mod.check_mode
    /\ mod.state = "absent"
    /\ mod.id # None
    /\ mod.id[1] \in mod.before
    /\ Cardinality(mod.before) = 2
    /\ mod.exit = "exit_json"
    /\ mod.changed
    /\ mod.calls = <<"get">>
    /\ resources = mod.before

----------------------------------------------------------------------------
(* Properties of a population pass that fails *)

\* no field of the preference order is present and non-empty in the record
NoHostname(host) ==
    \A i \in 1..Len(options.hostnames) : ~Usable(host, options.hostnames[i])

\* the position of the first record of s without a hostname
FirstWithout(s) ==
    CHOOSE k \in 1..Len(s) :
        NoHostname(s[k]) /\ \A j \in 1..(k - 1) : ~NoHostname(s[j])

\* what the records of s register: their groups, and each record's host in
\* each of its groups
Registered(s) ==
    [groups |-> UNION {get_host_groups(s[i]) : i \in 1..Len(s)},
     hosts  |-> UNION {{<<group, _get_hostname(s[i], options.hostnames).value>> :
                           group \in get_host_groups(s[i])} : i \in 1..Len(s)}]

\* C15: a population pass aborted by the no-hostname error is not rolled
\* back. When record k is the first without a hostname the parse fails, the
\* inventory holds what the records before k register and nothing of record k
\* or of a later one, a live run with caching enabled has already written the
\* whole sequence, record k included, to the cache, and a following run that
\* reads such an entry fails on it without a live fetch.
C15_AbortedPassIsNotRolledBack ==
    /\ (phase = "parsed" /\ \E k \in 1..Len(results) : NoHostname(results[k])) =>
          /\ outcome = "no_hostname"
          /\ inventory = Registered(SubSeq(results, 1, FirstWithout(results) - 1))
          /\ (Live /\ call.cache_option) =>
                /\ Key \in DOMAIN cache
                /\ cache[Key] = results
                /\ CountOp(trace, "cache_set") = 1
    /\ outcome = "no_hostname" => \E k \in 1..Len(results) : NoHostname(results[k])
    /\ (/\ Parsed(TRUE, TRUE)
        /\ Key \in DOMAIN prior
        /\ \E k \in 1..Len(prior[Key]) : NoHostname(prior[Key][k])) =>
          /\ outcome = "no_hostname"
          /\ results = prior[Key]
          /\ CountOp(trace, "get_inventory") = 0
          /\ CountOp(trace, "list_instances") = 0
          /\ CountOp(trace, "list_baremetal") = 0

\* a cached run over an entry that a failed live run wrote: the third record
\* has no hostname, two records before it are registered, one comes after it
C15_Witness ==
    /\ Parsed(TRUE, TRUE)
    /\ Key \in DOMAIN prior
    /\ CountOp(trace, "get_inventory") = 0
    /\ outcome = "no_hostname"
    /\ Len(results) = 4
    /\ FirstWithout(results) = 3
    /\ inventory # EmptyInventory
    /\ cache[Key] = results

====
